---------------------------- MODULE Spec2Model ----------------------------
(***************************************************************************)
(* Deepdrive2DEnv (src/deepdrive_2d/envs/env.py): the stepping engine of   *)
(* the 2D driving environment.  One agent is stepped per step() call, in   *)
(* round-robin order; the tuple handed back is the one stored for the      *)
(* agent whose turn comes next.                                            *)
(*                                                                         *)
(* Python indices are kept (agents are 0 .. num_agents-1); the list        *)
(* agent_step_outputs is a sequence, entry i of the list is At(list, i).   *)
(* An (observation, reward, done, info) tuple is a 4-tuple.  A Python      *)
(* None is the empty tuple.                                                *)
(*                                                                         *)
(* Agent (deepdrive_2d/envs/agent.py), the collision routines              *)
(* (deepdrive_2d/physics/collision_detection.py) and the constants module  *)
(* are not part of the sources at hand: the agent and the collision        *)
(* routines are black boxes whose results (or exceptions) are inputs of    *)
(* the actions.                                                            *)
(***************************************************************************)
EXTENDS Integers, Sequences, FiniteSets

\* ------------------------------------------------------------------ bounds
\* Number of step() calls explored.
MaxCalls == 4
\* Number of reset() calls made by the caller (the one in __init__ excluded).
MaxResets == 1
\* The wall clock runs from 0 to MaxNow, in units of 1/120 s.
MaxNow == 6
\* physics_steps_per_observation ranges over 1 .. MaxPhysicsSteps.
MaxPhysicsSteps == 8

\* Inputs.  The caller's actions are distinguishable: the k-th step() call
\* passes action k.  StepTimes is the wall time a tick may take, in units
\* of 1/120 s.
Action(k) == k
StepTimes == {1, 3}
\* The wall time that may pass between two looks at the clock.
Elapsed == {1, 3}

\* ------------------------------------------------------- program constants
\* self.fps = 60, self.target_dt = 1 / self.fps.  Time is counted in units
\* of 1 / (2 * fps) s, so that target_dt / num_agents is exact for 1 and 2
\* agents: target_dt is 2 units.
fps == 60
target_dt == 2
\* deepdrive_2d.constants.GAME_OVER_PENALTY
GAME_OVER_PENALTY == -1
\* physics_steps_per_observation=6, the default of the constructor
DefaultPhysicsSteps == 6
\* max_seconds: 100000 with '--no-timeout', self.max_one_waypoint_mult * 200
\* (0.5 * 200) with '--one_waypoint_map', 60 otherwise
NoTimeoutSeconds == 100000
OneWaypointSeconds == 200
DefaultSeconds == 60

None == <<>>
EmptyInfo == {}

VARIABLES
    \* process-wide configuration, fixed for a run
    IS_DEBUG_MODE,           \* deepdrive_2d.constants.IS_DEBUG_MODE
    penalize_loss,           \* '--penalize-loss' in sys.argv
    disable_collision_check, \* 'DISABLE_COLLISION_CHECK' in os.environ
    \* constructor arguments
    is_intersection_map,
    add_static_obstacle,
    \* fields of Deepdrive2DEnv
    num_agents,
    agent_step_outputs,
    agent_index,
    episode_steps,
    num_episodes,
    total_steps,
    should_render,
    has_enabled_render,
    \* whether render() was ever called, and how often _enable_render ran
    rendered,
    enable_render_calls,
    last_sleep_time,
    \* the agents: how many times Agent.reset() ran on each
    agent_resets,
    \* the last step() or reset() call: its name, argument, the agent at the
    \* cursor when it was made, the time the tick took, what the collision
    \* check returned, the arguments agent.step got, what happened inside
    \* the tick, whether it raised to the caller, and what it returned
    call,
    \* bookkeeping of the caller: step() calls made, step() calls whose tick
    \* completed, reset() calls made, the tuple the most recent completed
    \* agent step produced, and per agent the action its most recent
    \* completed step consumed (0: none yet)
    calls,
    ok_calls,
    resets,
    last_computed,
    last_action,
    \* timing: the constructor argument, the fields get_dt reads and writes,
    \* the wall clock, what get_dt returned last (None: not called yet) and
    \* the times at which the ticks so far asked for it
    decouple_step_time,
    last_step_time,
    wall_dt,
    now,
    dt,
    tick_times,
    \* the episode budget: '--no-timeout' and '--one_waypoint_map' in
    \* sys.argv, the constructor argument, and the field (None: not
    \* computed yet)
    no_timeout,
    one_waypoint_map,
    physics_steps_per_observation,
    _max_episode_steps,
    \* the last call of check_for_collisions made on its own: what the
    \* routines were set to answer, and its result (None: no call yet)
    collision_check,
    \* the step calls so far, in order: the tuple each stored (None: its
    \* tick raised) and what it returned
    history

config == <<IS_DEBUG_MODE, penalize_loss, disable_collision_check,
            is_intersection_map, add_static_obstacle, num_agents>>
render_vars == <<should_render, has_enabled_render, rendered,
                 enable_render_calls>>
counters == <<episode_steps, num_episodes, total_steps>>
step_vars == <<agent_step_outputs, agent_index, counters, render_vars,
               last_sleep_time, agent_resets, call, calls, ok_calls, resets,
               last_computed, last_action>>
timing_vars == <<decouple_step_time, last_step_time, wall_dt, now, dt,
                 tick_times>>
budget_vars == <<no_timeout, one_waypoint_map, physics_steps_per_observation,
                 _max_episode_steps>>
side_vars == <<timing_vars, budget_vars, collision_check>>
vars == <<config, step_vars, side_vars, history>>

\* ------------------------------------------------------------------ helpers
At(list, i) == list[i + 1]
SetAt(list, i, v) == [list EXCEPT ![i + 1] = v]
AgentIds == 0 .. (num_agents - 1)
Max(a, b) == IF a >= b THEN a ELSE b

\* --------------------------------------------------------- the Agent slot
\* Agent.get_blank_observation(): the all-zero placeholder.
get_blank_observation == [kind |-> "blank", by |-> 0, action |-> 0]

\* Agent.reset() returns an observation: a blank one ("Get a blank
\* observation, i.e. just zeroes").
AgentReset(i) == get_blank_observation

\* Agent.step(action) when it returns: the observation carries which agent
\* was stepped and the action it consumed; the reward is the agent's own
\* business, done is its verdict.
AgentReward(i, action) == 10 * (i + 1) + action
AgentStep(i, action, done) ==
    << [kind |-> "obs", by |-> i, action |-> action],
       AgentReward(i, action), done, {"agent"} >>

\* What a tick's collaborators can do: the collision routine answers or
\* raises, the agent's step answers or raises.
CollisionOutcomes == {"clear", "hit", "raise"}
AgentOutcomes == {"ok", "raise"}

\* ------------------------------------------------------------ __init__
\* if self.is_intersection_map: self.num_agents = 2 else 1
NumAgents(intersection) == IF intersection THEN 2 ELSE 1

\* ------------------------------------------------------------ reset
\* Faulty variants of reset, against which the properties below are tried.
\* Every reset resets all the agents.
reset_all_agents(outputs, index, ep_steps, nresets, n) ==
    IF Len(outputs) > 0
    THEN [agent_step_outputs |-> outputs,
          episode_steps |-> ep_steps,
          agent_resets |-> [i \in 0 .. (n - 1) |-> nresets[i] + 1],
          ret |-> <<AgentReset(index)>>]
    ELSE [agent_step_outputs |->
              [i \in 1 .. n |-> <<AgentReset(i - 1), 0, FALSE, EmptyInfo>>],
          episode_steps |-> 0,
          agent_resets |-> [i \in 0 .. (n - 1) |-> nresets[i] + 1],
          ret |-> <<get_blank_observation>>]

\* Every reset zeroes episode_steps.
reset_zeroes_episode_steps(outputs, index, ep_steps, nresets, n) ==
    IF Len(outputs) > 0
    THEN [agent_step_outputs |-> outputs,
          episode_steps |-> 0,
          agent_resets |-> [nresets EXCEPT ![index] = @ + 1],
          ret |-> <<AgentReset(index)>>]
    ELSE [agent_step_outputs |->
              [i \in 1 .. n |-> <<AgentReset(i - 1), 0, FALSE, EmptyInfo>>],
          episode_steps |-> 0,
          agent_resets |-> [i \in 0 .. (n - 1) |-> nresets[i] + 1],
          ret |-> <<get_blank_observation>>]

\* A reset of one agent also blanks the tuple stored for it.
reset_blanks_tuple(outputs, index, ep_steps, nresets, n) ==
    IF Len(outputs) > 0
    THEN [agent_step_outputs |->
              SetAt(outputs, index, <<AgentReset(index), 0, FALSE, EmptyInfo>>),
          episode_steps |-> ep_steps,
          agent_resets |-> [nresets EXCEPT ![index] = @ + 1],
          ret |-> <<AgentReset(index)>>]
    ELSE [agent_step_outputs |->
              [i \in 1 .. n |-> <<AgentReset(i - 1), 0, FALSE, EmptyInfo>>],
          episode_steps |-> 0,
          agent_resets |-> [i \in 0 .. (n - 1) |-> nresets[i] + 1],
          ret |-> <<get_blank_observation>>]

\* Every reset is a first reset: a further set of tuples is appended.
reset_appends_again(outputs, index, ep_steps, nresets, n) ==
    [agent_step_outputs |->
         outputs \o [i \in 1 .. n |-> <<AgentReset(i - 1), 0, FALSE, EmptyInfo>>],
     episode_steps |-> 0,
     agent_resets |-> [i \in 0 .. (n - 1) |-> nresets[i] + 1],
     ret |-> <<get_blank_observation>>]

\* reset.  The state reset() reads and writes is passed in, so that the
\* call made by __init__ (on the empty list) is the same definition.
reset(outputs, index, ep_steps, nresets, n) ==
    IF Len(outputs) > 0
    THEN \* Just reset the current agent
         [agent_step_outputs |-> outputs,
          episode_steps |-> ep_steps,
          agent_resets |-> [nresets EXCEPT ![index] = @ + 1],
          ret |-> <<AgentReset(index)>>]
    ELSE \* First reset, reset entire env
         [agent_step_outputs |->
              [i \in 1 .. n |-> <<AgentReset(i - 1), 0, FALSE, EmptyInfo>>],
          episode_steps |-> 0,
          agent_resets |-> [i \in 0 .. (n - 1) |-> nresets[i] + 1],
          ret |-> <<get_blank_observation>>]

\* ------------------------------------------------------------ collisions
\* A faulty variant of check_for_collisions: the static-obstacle loop goes
\* over all the agents and reports a hit of any of them.
check_for_collisions_all_agents(ego, pair) ==
    IF disable_collision_check
    THEN [called |-> "none", evaluated |-> {}, raised |-> FALSE, ret |-> "False"]
    ELSE IF add_static_obstacle
    THEN [called |-> "check_collision_ego_obj",
          evaluated |-> AgentIds,
          raised |-> (\E i \in AgentIds : ego[i] = "raise"),
          ret |-> IF \E i \in AgentIds : ego[i] = "raise" THEN "None"
                  ELSE IF \E i \in AgentIds : ego[i] = "hit" THEN "hit"
                  ELSE "clear"]
    ELSE IF is_intersection_map
    THEN [called |-> "check_collision_agents",
          evaluated |-> AgentIds,
          raised |-> (pair = "raise"),
          ret |-> IF pair = "raise" THEN "None" ELSE pair]
    ELSE [called |-> "none", evaluated |-> {}, raised |-> FALSE, ret |-> "None"]

\* A faulty variant of check_for_collisions: the intersection branch is
\* tested before the static-obstacle branch.
check_for_collisions_pairwise_first(ego, pair) ==
    IF disable_collision_check
    THEN [called |-> "none", evaluated |-> {}, raised |-> FALSE, ret |-> "False"]
    ELSE IF is_intersection_map
    THEN [called |-> "check_collision_agents", evaluated |-> AgentIds,
          raised |-> (pair = "raise"),
          ret |-> IF pair = "raise" THEN "None" ELSE pair]
    ELSE IF add_static_obstacle
    THEN [called |-> "check_collision_ego_obj", evaluated |-> {0},
          raised |-> (ego[0] = "raise"),
          ret |-> IF ego[0] = "raise" THEN "None" ELSE ego[0]]
    ELSE [called |-> "none", evaluated |-> {}, raised |-> FALSE, ret |-> "None"]

\* check_for_collisions: which routine runs, on which agents, and what
\* comes back.  ego[i] is what check_collision_ego_obj does for agent i's
\* rectangle and obstacle, pair what check_collision_agents does for the
\* list of agents.  The loop of the static-obstacle branch returns in its
\* first iteration, which is agent 0's.
check_for_collisions(ego, pair) ==
    IF disable_collision_check
    THEN [called |-> "none", evaluated |-> {}, raised |-> FALSE, ret |-> "False"]
    ELSE IF add_static_obstacle
    THEN [called |-> "check_collision_ego_obj",
          evaluated |-> {0},
          raised |-> (ego[0] = "raise"),
          ret |-> IF ego[0] = "raise" THEN "None" ELSE ego[0]]
    ELSE IF is_intersection_map
    THEN [called |-> "check_collision_agents",
          evaluated |-> AgentIds,
          raised |-> (pair = "raise"),
          ret |-> IF pair = "raise" THEN "None" ELSE pair]
    ELSE [called |-> "none", evaluated |-> {}, raised |-> FALSE, ret |-> "None"]

\* Inside a tick the routine that runs does one thing, whichever it is.
CheckInTick(coll) == check_for_collisions([i \in AgentIds |-> coll], coll)

\* ------------------------------------------------------------ pacing
\* A faulty variant of regulate_fps: the make-up time is slept as it is.
regulate_fps_no_floor(step_time) ==
    IF should_render
    THEN IF last_sleep_time = None
         THEN <<target_dt \div num_agents>>
         ELSE <<(target_dt \div num_agents) - step_time>>
    ELSE last_sleep_time

\* regulate_fps: the new last_sleep_time (the duration slept).  A float
\* field that may be None holds None or <<value>>.
regulate_fps(step_time) ==
    IF should_render
    THEN IF last_sleep_time = None
         THEN <<target_dt \div num_agents>>
         ELSE <<Max((target_dt \div num_agents) - step_time, 0)>>
    ELSE last_sleep_time

\* ------------------------------------------------------------ the tick
\* Faulty variants of get_step_output.
\* The cursor is left where it was.
get_step_output_stale_cursor(outputs, index, total, n, done, info, obs, reward) ==
    LET stored == SetAt(outputs, index, <<obs, reward, done, info>>)
    IN  [agent_step_outputs |-> stored,
         agent_index |-> index,
         ret |-> At(stored, index)]

\* The tuple handed back is read before the new one is stored.
get_step_output_reads_first(outputs, index, total, n, done, info, obs, reward) ==
    LET stored == SetAt(outputs, index, <<obs, reward, done, info>>)
        next_index == total % n
    IN  [agent_step_outputs |-> stored,
         agent_index |-> next_index,
         ret |-> At(outputs, next_index)]

\* The tuple handed back is the one just computed.
get_step_output_returns_computed(outputs, index, total, n, done, info, obs, reward) ==
    LET stored == SetAt(outputs, index, <<obs, reward, done, info>>)
        next_index == total % n
    IN  [agent_step_outputs |-> stored,
         agent_index |-> next_index,
         ret |-> At(stored, index)]

\* get_step_output: store the tuple just computed at the old cursor, move
\* the cursor to total_steps % len(agents), return what is stored there.
get_step_output(outputs, index, total, n, done, info, obs, reward) ==
    LET stored == SetAt(outputs, index, <<obs, reward, done, info>>)
        next_index == total % n
    IN  [agent_step_outputs |-> stored,
         agent_index |-> next_index,
         ret |-> At(stored, next_index)]

\* A faulty variant of Unchanged: the tick was counted before it raised.
Unchanged_counted(fault, collision, agent_args) ==
    [agent_step_outputs |-> agent_step_outputs,
     agent_index |-> (total_steps + 1) % num_agents,
     episode_steps |-> episode_steps + 1,
     num_episodes |-> num_episodes,
     total_steps |-> total_steps + 1,
     last_sleep_time |-> last_sleep_time,
     slept |-> None,
     computed |-> None,
     collision |-> collision,
     agent_args |-> agent_args,
     fault |-> fault, raised |-> TRUE, ret |-> None]

\* The environment's fields as a record, for the results of _step and
\* step: here of a tick that raised.  collision is what the collision check
\* returned, agent_args the arguments agent.step was called with (None:
\* it was not called).
Unchanged(fault, collision, agent_args) ==
    [agent_step_outputs |-> agent_step_outputs,
     agent_index |-> agent_index,
     episode_steps |-> episode_steps,
     num_episodes |-> num_episodes,
     total_steps |-> total_steps,
     last_sleep_time |-> last_sleep_time,
     slept |-> None,
     computed |-> None,
     collision |-> collision,
     agent_args |-> agent_args,
     fault |-> fault, raised |-> TRUE, ret |-> None]

\* Faulty variants of _step.
\* episode_steps is not counted.
_step_skips_episode_steps(action, coll, agent, done, step_time) ==
    LET check == CheckInTick(coll) IN
    IF check.raised
    THEN Unchanged("collision", "None", None)
    ELSE IF agent = "raise"
    THEN Unchanged("agent", check.ret, <<action>>)
    ELSE LET t == AgentStep(agent_index, action, done)
             out == get_step_output(agent_step_outputs, agent_index,
                                    total_steps + 1, num_agents,
                                    t[3], t[4], t[1], t[2])
         IN  [agent_step_outputs |-> out.agent_step_outputs,
              agent_index |-> out.agent_index,
              episode_steps |-> episode_steps,
              num_episodes |-> IF t[3] THEN num_episodes + 1 ELSE num_episodes,
              total_steps |-> total_steps + 1,
              last_sleep_time |-> regulate_fps(step_time),
              slept |-> IF should_render THEN regulate_fps(step_time) ELSE None,
              computed |-> t,
              collision |-> check.ret,
              agent_args |-> <<action>>,
              fault |-> "none", raised |-> FALSE, ret |-> out.ret]

\* num_episodes counts the done of the tuple handed back.
_step_counts_returned_done(action, coll, agent, done, step_time) ==
    LET check == CheckInTick(coll) IN
    IF check.raised
    THEN Unchanged("collision", "None", None)
    ELSE IF agent = "raise"
    THEN Unchanged("agent", check.ret, <<action>>)
    ELSE LET t == AgentStep(agent_index, action, done)
             out == get_step_output(agent_step_outputs, agent_index,
                                    total_steps + 1, num_agents,
                                    t[3], t[4], t[1], t[2])
         IN  [agent_step_outputs |-> out.agent_step_outputs,
              agent_index |-> out.agent_index,
              episode_steps |-> episode_steps + 1,
              num_episodes |-> IF out.ret[3] THEN num_episodes + 1 ELSE num_episodes,
              total_steps |-> total_steps + 1,
              last_sleep_time |-> regulate_fps(step_time),
              slept |-> IF should_render THEN regulate_fps(step_time) ELSE None,
              computed |-> t,
              collision |-> check.ret,
              agent_args |-> <<action>>,
              fault |-> "none", raised |-> FALSE, ret |-> out.ret]

\* _step: collision check (its result is dropped), agent step, counters,
\* turn rotation, pacing.  An exception of the collision routine or of the
\* agent leaves before any field is written.
_step(action, coll, agent, done, step_time) ==
    LET check == CheckInTick(coll) IN
    IF check.raised
    THEN Unchanged("collision", "None", None)
    ELSE IF agent = "raise"
    THEN Unchanged("agent", check.ret, <<action>>)
    ELSE LET t == AgentStep(agent_index, action, done)
             out == get_step_output(agent_step_outputs, agent_index,
                                    total_steps + 1, num_agents,
                                    t[3], t[4], t[1], t[2])
         IN  [agent_step_outputs |-> out.agent_step_outputs,
              agent_index |-> out.agent_index,
              episode_steps |-> episode_steps + 1,
              num_episodes |-> IF t[3] THEN num_episodes + 1 ELSE num_episodes,
              total_steps |-> total_steps + 1,
              last_sleep_time |-> regulate_fps(step_time),
              slept |-> IF should_render THEN regulate_fps(step_time) ELSE None,
              computed |-> t,
              collision |-> check.ret,
              agent_args |-> <<action>>,
              fault |-> "none", raised |-> FALSE, ret |-> out.ret]

\* A faulty variant of the except: branch: the flag is not consulted.
GameOver_no_penalty(r) ==
    [r EXCEPT !.raised = FALSE,
              !.ret = << get_blank_observation, 0, TRUE, EmptyInfo >>]

\* The except: branch of step: the terminal result.
GameOver(r) ==
    [r EXCEPT !.raised = FALSE,
              !.ret = << get_blank_observation,
                         IF penalize_loss THEN GAME_OVER_PENALTY ELSE 0,
                         TRUE, EmptyInfo >>]

\* @log.catch: the logger's decorator logs an exception that leaves the
\* function and returns None in its place.
log_catch(r) == IF r.raised THEN [r EXCEPT !.raised = FALSE, !.ret = None] ELSE r

\* step: in debug mode the tick runs bare, otherwise inside try/except.
step(action, coll, agent, done, step_time) ==
    LET r == _step(action, coll, agent, done, step_time)
    IN  log_catch(IF IS_DEBUG_MODE
                  THEN r
                  ELSE IF r.raised THEN GameOver(r) ELSE r)

\* ------------------------------------------------------------ timing
\* A faulty variant of get_dt: the wall time is handed out whatever the flag.
get_dt_wall(last, t) ==
    LET w == IF last # None THEN <<t - last[1]>> ELSE <<target_dt>>
    IN  [wall_dt |-> w, dt |-> w]

\* A faulty variant of get_dt: the target is handed out whatever the flag.
get_dt_target(last, t) ==
    LET w == IF last # None THEN <<t - last[1]>> ELSE <<target_dt>>
    IN  [wall_dt |-> w, dt |-> <<target_dt>>]

\* get_dt, called at wall time t with last_step_time = last: the new
\* wall_dt and the value returned.
get_dt(last, t) ==
    LET w == IF last # None THEN <<t - last[1]>> ELSE <<target_dt>>
    IN  [wall_dt |-> w,
         dt |-> IF decouple_step_time THEN <<target_dt>> ELSE w]

\* ------------------------------------------------------------ the budget
\* Exact fractions <<numerator, denominator>>, in lowest terms.
RECURSIVE GCD(_, _)
GCD(a, b) == IF b = 0 THEN a ELSE GCD(b, a % b)
Frac(n, d) == <<n \div GCD(n, d), d \div GCD(n, d)>>
FracMul(x, y) == Frac(x[1] * y[1], x[2] * y[2])
FracDiv(x, y) == Frac(x[1] * y[2], x[2] * y[1])
Whole(n) == <<n, 1>>

\* self.target_dt = 1 / self.fps, in seconds.
target_dt_seconds == FracDiv(Whole(1), Whole(fps))
\* self.max_one_waypoint_mult = 0.5
max_one_waypoint_mult == Frac(1, 2)

\* max_seconds, by the flags.
max_seconds(notimeout, onewaypoint, intersection) ==
    IF notimeout THEN Whole(NoTimeoutSeconds)
    ELSE IF onewaypoint
    THEN FracMul(max_one_waypoint_mult, Whole(OneWaypointSeconds))
    ELSE IF intersection THEN Whole(DefaultSeconds)
    ELSE Whole(DefaultSeconds)

\* A faulty variant: the last division binds to the product below it.
max_episode_steps_times_p(notimeout, onewaypoint, intersection, p) ==
    FracDiv(FracMul(max_seconds(notimeout, onewaypoint, intersection), Whole(1)),
            FracDiv(FracMul(target_dt_seconds, Whole(1)), Whole(p)))

\* self._max_episode_steps =
\*     max_seconds * 1/self.target_dt * 1/self.physics_steps_per_observation
\* evaluated left to right.
max_episode_steps(notimeout, onewaypoint, intersection, p) ==
    FracDiv(FracMul(FracDiv(FracMul(max_seconds(notimeout, onewaypoint,
                                               intersection),
                                    Whole(1)),
                            target_dt_seconds),
                    Whole(1)),
            Whole(p))

\* ------------------------------------------------------------ the machine
\* The record of a call that is not a step() call.
NoStep(op, ret) ==
    [op |-> op, action |-> 0, agent |-> 0, step_time |-> 0, slept |-> None,
     collision |-> "None", agent_args |-> None, fault |-> "none",
     raised |-> FALSE, ret |-> ret]

\* The fields __init__ leaves behind, given the configuration.
Constructed ==
    /\ num_agents = NumAgents(is_intersection_map)
    /\ LET r == reset(<<>>, 0, 0, [i \in 0 .. (num_agents - 1) |-> 0], num_agents)
       IN  /\ agent_step_outputs = r.agent_step_outputs
           /\ episode_steps = r.episode_steps
           /\ agent_resets = r.agent_resets
           /\ call = NoStep("__init__", None)
    /\ agent_index = 0
    /\ num_episodes = 0
    /\ total_steps = 0
    /\ should_render = FALSE
    /\ has_enabled_render = FALSE
    /\ rendered = FALSE
    /\ enable_render_calls = 0
    /\ last_sleep_time = None
    /\ calls = 0
    /\ ok_calls = 0
    /\ resets = 0
    /\ last_computed = None
    /\ last_action = [i \in 0 .. (num_agents - 1) |-> 0]
    /\ last_step_time = None
    /\ wall_dt = None
    /\ now = 0
    /\ dt = None
    /\ tick_times = <<>>
    /\ collision_check = None
    /\ history = <<>>

\* The constructor's defaults for what the stepping does not read.
Defaults ==
    /\ decouple_step_time = TRUE
    /\ no_timeout = FALSE
    /\ one_waypoint_map = FALSE
    /\ physics_steps_per_observation = DefaultPhysicsSteps
    /\ _max_episode_steps =
          max_episode_steps(no_timeout, one_waypoint_map, is_intersection_map,
                            physics_steps_per_observation)

\* The state after Deepdrive2DEnv(...) returned, for every configuration.
Init ==
    /\ IS_DEBUG_MODE \in BOOLEAN
    /\ penalize_loss \in BOOLEAN
    /\ disable_collision_check \in BOOLEAN
    /\ is_intersection_map \in BOOLEAN
    /\ add_static_obstacle \in BOOLEAN
    /\ Constructed
    /\ Defaults

Step(action, coll, agent, done, step_time) ==
    /\ calls < MaxCalls
    /\ LET r == step(action, coll, agent, done, step_time)
       IN  /\ agent_step_outputs' = r.agent_step_outputs
           /\ agent_index' = r.agent_index
           /\ episode_steps' = r.episode_steps
           /\ num_episodes' = r.num_episodes
           /\ total_steps' = r.total_steps
           /\ last_sleep_time' = r.last_sleep_time
           /\ call' = [op |-> "step", action |-> action, agent |-> agent_index,
                       step_time |-> step_time, slept |-> r.slept,
                       collision |-> r.collision,
                       agent_args |-> r.agent_args, fault |-> r.fault,
                       raised |-> r.raised, ret |-> r.ret]
           /\ ok_calls' = IF r.fault = "none" THEN ok_calls + 1 ELSE ok_calls
           /\ last_computed' = IF r.fault = "none" THEN r.computed
                               ELSE last_computed
           /\ last_action' = IF r.fault = "none"
                             THEN [last_action EXCEPT ![agent_index] = action]
                             ELSE last_action
    /\ calls' = calls + 1
    /\ UNCHANGED <<config, render_vars, agent_resets, resets, side_vars>>

Reset ==
    /\ resets < MaxResets
    /\ LET r == reset(agent_step_outputs, agent_index, episode_steps,
                      agent_resets, num_agents)
       IN  /\ agent_step_outputs' = r.agent_step_outputs
           /\ episode_steps' = r.episode_steps
           /\ agent_resets' = r.agent_resets
           /\ call' = NoStep("reset", r.ret)
    /\ resets' = resets + 1
    /\ UNCHANGED <<history, config, agent_index, num_episodes, total_steps,
                   render_vars, last_sleep_time, calls, ok_calls,
                   last_computed, last_action, side_vars>>

\* A faulty variant of render: the front-end is enabled on every call.
render_enables_again(has, should, enables) ==
    [should_render |-> TRUE, has_enabled_render |-> TRUE,
     enable_render_calls |-> enables + 1]

\* render: _enable_render (which sets should_render) runs on the first
\* call only.
render(has, should, enables) ==
    IF ~has
    THEN [should_render |-> TRUE, has_enabled_render |-> TRUE,
          enable_render_calls |-> enables + 1]
    ELSE [should_render |-> should, has_enabled_render |-> has,
          enable_render_calls |-> enables]

Render ==
    /\ LET r == render(has_enabled_render, should_render, enable_render_calls)
       IN  /\ should_render' = r.should_render
           /\ has_enabled_render' = r.has_enabled_render
           /\ enable_render_calls' = r.enable_render_calls
    /\ rendered' = TRUE
    /\ UNCHANGED <<history, config, agent_step_outputs, agent_index, counters,
                   last_sleep_time, agent_resets, call, calls, ok_calls,
                   resets, last_computed, last_action, side_vars>>

\* The inputs that cannot matter to a tick are not enumerated: the time a
\* tick takes is read by the pacing only, a collision routine that is not
\* called cannot raise, and a tick that raised asked the agent for nothing.
StepTimesNow == IF should_render /\ last_sleep_time # None THEN StepTimes ELSE {1}
CollisionOutcomesNow ==
    IF CheckInTick("raise").raised THEN CollisionOutcomes ELSE {"clear"}

\* A tick that completes.
StepCompletes ==
    /\ \E coll \in CollisionOutcomesNow \ {"raise"}, done \in BOOLEAN,
          step_time \in StepTimesNow :
          Step(Action(calls + 1), coll, "ok", done, step_time)
    /\ UNCHANGED history

\* A tick in which the collision routine raises.
StepCollisionRaises ==
    /\ "raise" \in CollisionOutcomesNow
    /\ Step(Action(calls + 1), "raise", "ok", FALSE, 1)
    /\ UNCHANGED history

\* A tick in which the agent's step raises.
StepAgentRaises ==
    /\ Step(Action(calls + 1), "clear", "raise", FALSE, 1)
    /\ UNCHANGED history

Next ==
    \/ StepCompletes
    \/ StepCollisionRaises
    \/ StepAgentRaises
    \/ Reset
    \/ Render

Spec == Init /\ [][Next]_vars

\* ------------------------------------------------- two agents, recorded
\* The stepping of two agents with every step call written down: what the
\* tick stored and what the call returned.  Rendering is left out.
DeliveryInit ==
    /\ IS_DEBUG_MODE \in BOOLEAN
    /\ penalize_loss = FALSE
    /\ disable_collision_check \in BOOLEAN
    /\ is_intersection_map = TRUE
    /\ add_static_obstacle = FALSE
    /\ Constructed
    /\ Defaults

Recorded ==
    history' = Append(history,
                      [stored |-> IF call'.fault = "none" THEN last_computed'
                                  ELSE None,
                       returned |-> call'.ret])

RecordedStepCompletes ==
    /\ \E done \in BOOLEAN : Step(Action(calls + 1), "clear", "ok", done, 1)
    /\ Recorded

RecordedStepCollisionRaises ==
    /\ "raise" \in CollisionOutcomesNow
    /\ Step(Action(calls + 1), "raise", "ok", FALSE, 1)
    /\ Recorded

RecordedStepAgentRaises ==
    /\ Step(Action(calls + 1), "clear", "raise", FALSE, 1)
    /\ Recorded

DeliveryNext ==
    \/ RecordedStepCompletes
    \/ RecordedStepCollisionRaises
    \/ RecordedStepAgentRaises
    \/ Reset

DeliverySpec == DeliveryInit /\ [][DeliveryNext]_vars

\* ------------------------------------------------------- the clock alone
\* The agent's step asks the environment for the simulated delta and
\* stamps last_step_time; wall time passes between the ticks.  The
\* stepping is left out: it reads none of these fields.
TimingInit ==
    /\ IS_DEBUG_MODE = FALSE
    /\ penalize_loss = FALSE
    /\ disable_collision_check = FALSE
    /\ is_intersection_map = FALSE
    /\ add_static_obstacle = FALSE
    /\ Constructed
    /\ decouple_step_time \in BOOLEAN
    /\ no_timeout = FALSE
    /\ one_waypoint_map = FALSE
    /\ physics_steps_per_observation = DefaultPhysicsSteps
    /\ _max_episode_steps =
          max_episode_steps(no_timeout, one_waypoint_map, is_intersection_map,
                            physics_steps_per_observation)

TimePasses(e) ==
    /\ now + e <= MaxNow
    /\ now' = now + e
    /\ UNCHANGED <<history, config, step_vars, decouple_step_time, last_step_time,
                   wall_dt, dt, tick_times, budget_vars, collision_check>>

\* One tick of the agent: env.get_dt(), then the stamp.  The clock has
\* moved since the tick before.
AgentTick ==
    /\ IF tick_times = <<>> THEN TRUE ELSE tick_times[Len(tick_times)] < now
    /\ LET r == get_dt(last_step_time, now)
       IN  /\ wall_dt' = r.wall_dt
           /\ dt' = r.dt
    /\ last_step_time' = <<now>>
    /\ tick_times' = Append(tick_times, now)
    /\ UNCHANGED <<history, config, step_vars, decouple_step_time, now, budget_vars,
                   collision_check>>

TimingNext ==
    \/ \E e \in Elapsed : TimePasses(e)
    \/ AgentTick

TimingSpec == TimingInit /\ [][TimingNext]_vars

\* ------------------------------------------------------ the budget alone
\* __init__ up to the assignment of _max_episode_steps, for every choice of
\* the flags and of physics_steps_per_observation.
BudgetInit ==
    /\ IS_DEBUG_MODE = FALSE
    /\ penalize_loss = FALSE
    /\ disable_collision_check = FALSE
    /\ is_intersection_map \in BOOLEAN
    /\ add_static_obstacle = FALSE
    /\ Constructed
    /\ decouple_step_time = TRUE
    /\ no_timeout \in BOOLEAN
    /\ one_waypoint_map \in BOOLEAN
    /\ physics_steps_per_observation \in 1 .. MaxPhysicsSteps
    /\ _max_episode_steps = None

ComputeBudget ==
    /\ _max_episode_steps = None
    /\ _max_episode_steps' =
          max_episode_steps(no_timeout, one_waypoint_map, is_intersection_map,
                            physics_steps_per_observation)
    /\ UNCHANGED <<history, config, step_vars, timing_vars, no_timeout,
                   one_waypoint_map, physics_steps_per_observation,
                   collision_check>>

BudgetNext == ComputeBudget

BudgetSpec == BudgetInit /\ [][BudgetNext]_vars

\* --------------------------------------------- the collision check alone
\* check_for_collisions for every configuration and every answer of the
\* routines, agent by agent.
CollisionInit ==
    /\ IS_DEBUG_MODE = FALSE
    /\ penalize_loss = FALSE
    /\ disable_collision_check \in BOOLEAN
    /\ is_intersection_map \in BOOLEAN
    /\ add_static_obstacle \in BOOLEAN
    /\ Constructed
    /\ Defaults

CheckForCollisions(ego, pair) ==
    /\ collision_check' = [ego |-> ego, pair |-> pair,
                           result |-> check_for_collisions(ego, pair)]
    /\ UNCHANGED <<history, config, step_vars, timing_vars, budget_vars>>

CollisionNext ==
    \E ego \in [AgentIds -> CollisionOutcomes], pair \in CollisionOutcomes :
       CheckForCollisions(ego, pair)

CollisionSpec == CollisionInit /\ [][CollisionNext]_vars

\* ---------------------------------------------------------- properties
\* The steps of the machine, as the caller sees them.
StepCall == calls' = calls + 1
StepCompleted == StepCall /\ call'.fault = "none"
ResetCall == resets' = resets + 1
BlankTuple == <<get_blank_observation, 0, FALSE, EmptyInfo>>
Observation(ret) == ret[1]

\* C1: outside debug mode a step() call in whose tick the collision check
\* or the agent's step raised does not raise to the caller; it returns the
\* blank observation, the reward GAME_OVER_PENALTY if '--penalize-loss' is
\* given and 0 otherwise, done = True and an empty info.
C1_FaultContained ==
    (~IS_DEBUG_MODE /\ call.op = "step" /\ call.fault # "none") =>
        /\ ~call.raised
        /\ call.ret = << [kind |-> "blank", by |-> 0, action |-> 0],
                         IF penalize_loss THEN GAME_OVER_PENALTY ELSE 0,
                         TRUE, {} >>

C1_Witness ==
    /\ ~IS_DEBUG_MODE /\ penalize_loss
    /\ call.op = "step" /\ call.fault = "collision"
    /\ ok_calls > 0

\* C2: in every state, whatever step, reset and render calls led to it
\* (contained faults included), the turn cursor agent_index equals
\* total_steps mod num_agents.
C2_CursorIsTotalModAgents == agent_index = total_steps % num_agents

C2_Witness ==
    /\ num_agents = 2 /\ total_steps = 3 /\ agent_index = 1
    /\ calls > ok_calls /\ resets > 0 /\ should_render

\* C3 as stated: every step() call increments total_steps and
\* episode_steps by one, so that after K calls the cursor is K mod N.
C3_EveryCallCounts ==
    /\ total_steps = calls
    /\ episode_steps = calls
    /\ agent_index = calls % num_agents

\* C3, amended: a step() call whose tick completes increments total_steps
\* and episode_steps by exactly one, a call whose tick raises leaves both
\* as they are; after the call the cursor equals the number of completed
\* calls mod N.
C3_CompletedCallsCount ==
    [][StepCall =>
         /\ call'.fault = "none" =>
               /\ total_steps' = total_steps + 1
               /\ episode_steps' = episode_steps + 1
         /\ call'.fault # "none" => UNCHANGED <<total_steps, episode_steps>>
         /\ total_steps' = ok_calls'
         /\ agent_index' = ok_calls' % num_agents]_vars

C3_Witness ==
    /\ num_agents = 2 /\ call.op = "step" /\ call.fault = "none"
    /\ calls = 4 /\ ok_calls = 3 /\ agent_index = 1

C6_OppositeAgentsAction ==
    (/\ num_agents = 2 /\ call.op = "step" /\ call.fault = "none"
     /\ Observation(call.ret).kind = "obs") =>
        /\ Observation(call.ret).by = 1 - agent_index
        /\ Observation(call.ret).action = last_action[1 - agent_index]

\* C6, amended: with two agents the observation a completed step() call
\* returns for an agent (the agent at the new cursor), when it is not the
\* blank one of construction, was produced by that agent's own most recent
\* completed step and consumed that agent's own most recent action; it was
\* not produced by the step of this call, which consumed the opposite
\* agent's action.
C6_OwnPreviousAction ==
    (/\ num_agents = 2 /\ call.op = "step" /\ call.fault = "none"
     /\ Observation(call.ret).kind = "obs") =>
        /\ Observation(call.ret).by = agent_index
        /\ Observation(call.ret).action = last_action[agent_index]
        /\ Observation(call.ret).action # call.action
        /\ last_action[1 - agent_index] = call.action

C6_Witness ==
    /\ num_agents = 2 /\ call.op = "step" /\ call.fault = "none"
    /\ calls = 4 /\ ok_calls = 4
    /\ Observation(call.ret).by = 0
    /\ Observation(call.ret).action = Action(3)

\* C7: in debug mode an exception raised inside a tick (by the collision
\* check or by the agent's step) propagates out of step() to the caller.
C7_DebugFaultPropagates ==
    (IS_DEBUG_MODE /\ call.op = "step" /\ call.fault # "none") => call.raised

\* C8 as stated: a reset() before any step() resets every agent, leaves
\* episode_steps and total_steps at zero and returns a blank observation.
C8_EarlyResetResetsAll ==
    [][(ResetCall /\ calls = 0) =>
         /\ \A i \in AgentIds : agent_resets'[i] = agent_resets[i] + 1
         /\ episode_steps' = 0 /\ total_steps' = 0
         /\ call'.ret = <<get_blank_observation>>]_vars

\* C8, amended: a reset() made after construction and before any step()
\* resets the agent at the cursor only, which is agent 0 (every agent only
\* when there is one agent); it leaves episode_steps and total_steps at
\* zero and the stored tuples as they are, and returns a blank observation.
C8_EarlyResetResetsCursorAgent ==
    [][(ResetCall /\ calls = 0) =>
         /\ agent_index = 0
         /\ agent_resets' = [agent_resets EXCEPT ![0] = @ + 1]
         /\ episode_steps' = 0 /\ total_steps' = 0
         /\ agent_step_outputs' = agent_step_outputs
         /\ call'.ret = <<get_blank_observation>>]_vars

C8_Witness ==
    /\ num_agents = 2 /\ call.op = "reset" /\ calls = 0
    /\ agent_resets[0] = 2 /\ agent_resets[1] = 1

\* C9: a reset() after at least one step() resets the agent at the cursor
\* only and returns that agent's fresh observation; agent_index,
\* total_steps, episode_steps, num_episodes and the other agents' stored
\* tuples are left as they are.
C9_LateResetFrame ==
    [][(ResetCall /\ calls >= 1) =>
         /\ agent_resets' = [agent_resets EXCEPT ![agent_index] = @ + 1]
         /\ call'.ret = <<get_blank_observation>>
         /\ UNCHANGED <<agent_index, total_steps, episode_steps, num_episodes>>
         /\ \A j \in AgentIds \ {agent_index} :
               At(agent_step_outputs', j) = At(agent_step_outputs, j)]_vars

C9_Witness ==
    /\ num_agents = 2 /\ call.op = "reset" /\ ok_calls >= 1
    /\ agent_index = 1 /\ episode_steps > 0 /\ num_episodes > 0
    /\ agent_resets[1] = 2 /\ agent_resets[0] = 1

\* C10 as stated: a reset() after a step replaces the stored tuple of the
\* agent being reset by a blank tuple, and otherwise a stored tuple changes
\* only when its own agent is stepped.
C10_ResetBlanksStoredTuple ==
    [][/\ (ResetCall /\ calls >= 1) =>
             At(agent_step_outputs', agent_index) = BlankTuple
       /\ \A j \in AgentIds :
             (~ResetCall /\ At(agent_step_outputs', j) # At(agent_step_outputs, j))
                 => (StepCompleted /\ agent_index = j)]_vars

\* C10, amended: a reset() leaves every stored tuple as it is, the tuple
\* of the agent being reset included (that tuple is replaced when the
\* agent is next stepped); a stored tuple changes only in a step() call
\* that steps its own agent, and then to the tuple computed in that call.
C10_OnlyOwnStepWritesTuple ==
    [][/\ ResetCall => agent_step_outputs' = agent_step_outputs
       /\ \A j \in AgentIds :
             At(agent_step_outputs', j) # At(agent_step_outputs, j)
                 => /\ StepCompleted /\ agent_index = j
                    /\ At(agent_step_outputs', j) = last_computed']_vars

C10_Witness ==
    /\ call.op = "reset" /\ ok_calls >= 1
    /\ Observation(At(agent_step_outputs, agent_index)).kind = "obs"
    /\ At(agent_step_outputs, agent_index)[3]

\* C11 (as stated).  A reset() that follows a terminal step (one whose
\* returned done is true) leaves episode_steps at zero, and total_steps
\* never decreases in any step or reset.
C11_EpisodeStepsZeroedAtEpisodeStart ==
    [][ /\ (ResetCall /\ call.op = "step" /\ call.ret # None /\ call.ret[3])
            => episode_steps' = 0
        /\ total_steps' >= total_steps ]_vars

\* C12.  A step call raises num_episodes by one exactly when the agent
\* stepped in it reported done, and leaves it alone otherwise; so does every
\* reset and render; num_episodes never decreases.
C12_EpisodesCountActingAgentsDone ==
    [][ /\ StepCall =>
              num_episodes' = num_episodes +
                  (IF call'.fault = "none" /\ last_computed'[3] THEN 1 ELSE 0)
        /\ ~StepCall => num_episodes' = num_episodes
        /\ num_episodes' >= num_episodes ]_vars

\* Two agents: the stepped agent reported done, the tuple handed back (the
\* other agent's) does not say done, and the episode was counted.
C12_Witness ==
    /\ num_agents = 2
    /\ call.op = "step"
    /\ call.fault = "none"
    /\ last_computed[3]
    /\ ~call.ret[3]
    /\ num_episodes = 1

\* The pacing budget of one call.
Budget == target_dt \div num_agents

\* C15.  While rendering, a completed step sleeps the whole budget
\* target_dt / num_agents when nothing was slept before, and
\* max(0, budget - step time) afterwards; what it slept is last_sleep_time
\* and lies in 0 .. budget.
C15_PacingSleep ==
    [][ (StepCompleted /\ should_render) =>
            /\ last_sleep_time' =
                  IF last_sleep_time = None
                  THEN <<Budget>>
                  ELSE <<Max(Budget - call'.step_time, 0)>>
            /\ last_sleep_time'[1] \in 0 .. Budget ]_vars

\* A paced step after the first, slower than the budget: nothing is slept.
C15_Witness ==
    /\ should_render
    /\ call.op = "step"
    /\ call.fault = "none"
    /\ ok_calls >= 2
    /\ call.step_time > Budget
    /\ last_sleep_time = <<0>>

\* C17 (as stated).  In every step call that reaches the agent, the agent's
\* step is handed the action and what check_for_collisions returned in that
\* call.
C17_CollisionResultReachesAgent ==
    (call.op = "step" /\ call.agent_args # None) =>
        /\ Len(call.agent_args) = 2
        /\ call.agent_args[2] = call.collision

\* C18 (as stated).  The done and info a completed step returns are the
\* ones the agent stepped in that call reported.
C18_DoneInfoOfSteppedAgent ==
    (call.op = "step" /\ call.fault = "none") =>
        /\ call.ret[3] = last_computed[3]
        /\ call.ret[4] = last_computed[4]

\* C19 (as stated).  The k-th step call, k from 0, steps agent k mod N.
C19_KthCallStepsKModN ==
    call.op = "step" => call.agent = (calls - 1) % num_agents

\* C19 (amended).  A step call steps the agent under the cursor, which is
\* agent c mod N after c completed calls; a completed call moves the cursor
\* to the next agent, wrapping around, and a call that faulted leaves it, so
\* the next call steps the same agent again.
C19_RotationOverCompletedCalls ==
    [][ StepCall =>
            /\ call'.agent = agent_index
            /\ agent_index = ok_calls % num_agents
            /\ call'.fault = "none" =>
                   agent_index' = (agent_index + 1) % num_agents
            /\ call'.fault # "none" => agent_index' = agent_index
            /\ agent_index' \in AgentIds ]_vars

\* Two agents, a faulted call among three completed ones: the fourth call
\* stepped agent 0, and the cursor wrapped around more than once.
C19_Witness ==
    /\ num_agents = 2
    /\ calls = 4
    /\ ok_calls = 3
    /\ call.op = "step"
    /\ call.fault = "none"
    /\ call.agent = 0
    /\ agent_index = 1

\* C13.  With decouple_step_time set, every get_dt returns target_dt,
\* whatever the wall clock showed between the calls.
C13_DecoupledDeltaIsTarget ==
    (decouple_step_time /\ dt # None) => dt = <<target_dt>>

\* Decoupled, a later tick: the wall clock measured something else than
\* target_dt, and target_dt was returned.
C13_Witness ==
    /\ decouple_step_time
    /\ Len(tick_times) >= 2
    /\ wall_dt # <<target_dt>>
    /\ dt = <<target_dt>>

C16_StaticObstacleChecksAgentZeroOnly ==
    (/\ collision_check # None
     /\ add_static_obstacle
     /\ is_intersection_map
     /\ ~disable_collision_check
     /\ collision_check.ego[0] # "raise") =>
        /\ collision_check.result.called = "check_collision_ego_obj"
        /\ collision_check.result.ret = collision_check.ego[0]
        /\ collision_check.result.evaluated = {0}

\* Agent 1 is in collision with the obstacle, agent 0 is not: no collision
\* is reported.
C16_Witness ==
    /\ collision_check # None
    /\ add_static_obstacle
    /\ is_intersection_map
    /\ ~disable_collision_check
    /\ num_agents = 2
    /\ collision_check.ego[0] = "clear"
    /\ collision_check.ego[1] = "hit"
    /\ collision_check.result.ret = "clear"

\* The seconds budget the configuration selects.
Seconds ==
    IF no_timeout THEN 100000 ELSE IF one_waypoint_map THEN 100 ELSE 60

Selected ==
    IF disable_collision_check THEN "none"
    ELSE IF add_static_obstacle THEN "check_collision_ego_obj"
    ELSE IF is_intersection_map THEN "check_collision_agents"
    ELSE "none"

\* C21.  check_for_collisions runs the one routine the precedence selects:
\* none, returning False, when the check is disabled; else the
\* static-obstacle check alone; else, in intersection mode, the pairwise
\* check over all the agents; else none.  A call leaves the counters, the
\* cursor and the stored tuples as they were.
C21_DispatchByPrecedence ==
    [][ collision_check' # collision_check =>
          LET r == collision_check'.result IN
            /\ r.called = Selected
            /\ disable_collision_check => (r.ret = "False" /\ r.evaluated = {})
            /\ Selected = "check_collision_ego_obj" =>
                  (r.raised \/ r.ret = collision_check'.ego[0])
            /\ Selected = "check_collision_agents" =>
                  /\ r.evaluated = AgentIds
                  /\ (r.raised \/ r.ret = collision_check'.pair)
            /\ (~disable_collision_check /\ Selected = "none") =>
                  (r.ret = "None" /\ r.evaluated = {})
            /\ UNCHANGED <<counters, agent_index, agent_step_outputs>> ]_vars

\* Both modes set, both routines would report a hit: the static-obstacle
\* check alone ran.
C21_Witness ==
    /\ collision_check # None
    /\ ~disable_collision_check
    /\ add_static_obstacle
    /\ is_intersection_map
    /\ collision_check.pair = "raise"
    /\ collision_check.ego[0] = "hit"
    /\ collision_check.result.called = "check_collision_ego_obj"
    /\ ~collision_check.result.raised

C23_ContainedFaultChangesNothing ==
    [][ /\ (StepCall /\ ~IS_DEBUG_MODE /\ call'.fault # "none") =>
              /\ UNCHANGED <<counters, agent_index, agent_step_outputs>>
              /\ call'.ret # None
              /\ call'.ret[3]
        /\ (StepCall /\ ~IS_DEBUG_MODE /\ call.op = "step"
               /\ call.fault # "none") =>
              call'.agent = call.agent ]_vars

\* Two agents, three calls of which one faulted and was contained: the
\* call after the fault stepped the agent the faulted call was for, and
\* the third call was agent 1's.
C23_Witness ==
    /\ ~IS_DEBUG_MODE
    /\ num_agents = 2
    /\ calls = 3
    /\ ok_calls = 2
    /\ call.op = "step"
    /\ call.fault = "none"
    /\ call.agent = 1
    /\ total_steps = 2

\* C25.  num_agents is 2 in intersection mode and 1 otherwise,
\* agent_step_outputs has num_agents entries, and the cursor is within
\* 0 .. num_agents - 1.
C25_AgentCountAndCursor ==
    /\ num_agents = (IF is_intersection_map THEN 2 ELSE 1)
    /\ Len(agent_step_outputs) = num_agents
    /\ agent_index \in 0 .. (num_agents - 1)

\* Two agents, after a reset and steps that moved the cursor.
C25_Witness ==
    /\ is_intersection_map
    /\ resets > 0
    /\ ok_calls >= 3
    /\ agent_index = 1
    /\ Len(agent_step_outputs) = 2

\* The step calls that completed, and the ones that returned tuple t.
Completed == {k \in 1 .. Len(history) : history[k].stored # None}
Reporters(t) == {k \in 1 .. Len(history) : history[k].returned = t}
Min(S) == CHOOSE x \in S : \A y \in S : x <= y

====
